---- MODULE Spec2Model ----
(***************************************************************************)
(* pybat.core.Cathode: the oxygen-dimer search over the Voronoi neighbour  *)
(* lists of a periodic structure, the dimer environment, and the cation    *)
(* configuration (the occupancy overlay of the cation sites).              *)
(*                                                                         *)
(* The Voronoi decomposition is pymatgen's DetailedVoronoiContainer.  What  *)
(* it answers is chosen when the Cathode first builds it: for each site an *)
(* ordered list of site indices, in which an index may repeat (several     *)
(* periodic images of one site) and a site may list itself (its own        *)
(* periodic images).                                                       *)
(*                                                                         *)
(* change_site_distance moves two sites along the line to the nearest      *)
(* periodic image, in one periodic direction on a grid of whole steps.     *)
(* pybat.workflow adds the dimer workflows to the LaunchPad.               *)
(***************************************************************************)
EXTENDS Integers, Sequences, FiniteSets, TLC

VARIABLES
    sites,                  \* Structure.sites: the ordered sites of the Cathode
    voronoi_cache,          \* Cathode._voronoi
    cation_configuration_,  \* Cathode._cation_configuration
    call,                   \* the last call on the Cathode: its name and arguments
    raised,                 \* the exception that call raised, "none" when it returned
    returned,               \* the value that call returned, by its type
    launchpad               \* LAUNCHPAD: the workflows added, in order

vars == <<sites, voronoi_cache, cation_configuration_, call, raised, returned,
          launchpad>>

----------------------------------------------------------------------------
(* Bounds of the model. *)

NumSites == 3
MaxRequest == 2
MaxDistance == 4
MaxCoord == 3
MaxWorkflows == 1

SiteIndices == 1..NumSites

(* The element vocabulary the structures are drawn from. *)
Species == {"O", "Li", "Mn"}

CATIONS == {"Li", "Na", "Mg"}

Range(s) == {s[k] : k \in 1..Len(s)}

SeqsUpTo(S, n) == UNION {[1..k -> S] : k \in 0..n}

----------------------------------------------------------------------------
(* Python values. *)

None == [is_none |-> TRUE, list |-> <<>>]

List(l) == [is_none |-> FALSE, list |-> l]

\* A coordinate or a distance: a number of grid steps, or not a number.
Float(x) == [is_nan |-> FALSE, x |-> x]

NaN == [is_nan |-> TRUE, x |-> 0]

\* What a call returns: a list of index pairs, a set of indices or a list of
\* sites; a call that raises returns nothing.
Nothing == [pairs |-> <<>>, indices |-> {}, site_list |-> <<>>]

Pairs(l) == [Nothing EXCEPT !.pairs = l]

Indices(S) == [Nothing EXCEPT !.indices = S]

Sites(l) == [Nothing EXCEPT !.site_list = l]

\* list.remove(x): drops the first element equal to x.
RECURSIVE list_remove(_, _)
list_remove(l, x) ==
    IF l = <<>> THEN <<>>
    ELSE IF Head(l) = x THEN Tail(l)
    ELSE <<Head(l)>> \o list_remove(Tail(l), x)

\* combinations_2 with the second position outermost.
combinations_2_by_second(l) ==
    LET RECURSIVE upto(_)
        upto(q) == IF q < 2 THEN <<>>
                   ELSE upto(q - 1) \o [p \in 1..(q - 1) |-> <<l[p], l[q]>>]
    IN  upto(Len(l))

\* itertools.combinations(l, 2): the pairs of l by position, the first position
\* outermost, both in increasing order.
RECURSIVE combinations_2(_)
combinations_2(l) ==
    IF Len(l) < 2 THEN <<>>
    ELSE [k \in 1..(Len(l) - 1) |-> <<l[1], l[k + 1]>>] \o combinations_2(Tail(l))

----------------------------------------------------------------------------
(* The Cathode's pure parts. *)

\* Python's indexing of a list of NumSites items. An index i here stands for
\* Python's i - 1: 1..NumSites are the sites, 0 is Python's -1, the last site.
in_range(i) == i \in (1 - NumSites)..NumSites

index(i) == IF i >= 1 THEN i ELSE i + NumSites

is_cation(site) == site.specie \in CATIONS

\* Cathode.cation_sites
cation_sites(s) == SelectSeq(s, is_cation)

\* [neighbor["index"] for neighbor in self.voronoi.neighbors(i, 1.3, 0.7)]
neighbors(v, i) == v[index(i)]

\* oxygen_neighbors_indices without the test of the neighbour's species.
oxygen_neighbors_unfiltered(s, v, site_index) == neighbors(v, site_index)

oxygen_neighbors_indices(s, v, site_index) ==
    SelectSeq(neighbors(v, site_index), LAMBDA j : s[j].specie = "O")

\* too_few_oxygen_neighbors with the length test off by one.
too_few_is_none(l) == Len(l) < 1

too_few_oxygen_neighbors(l) == Len(l) <= 1

shared_neighbours(v, oxygen_pair) ==
    Range(neighbors(v, oxygen_pair[1])) \cap Range(neighbors(v, oxygen_pair[2]))

\* is_dimer accepting two or more shared neighbours.
is_dimer_at_least_two(v, oxygen_pair) ==
    Cardinality(shared_neighbours(v, oxygen_pair)) >= 2

is_dimer(v, oxygen_pair) == Cardinality(shared_neighbours(v, oxygen_pair)) = 2

oxygen_dimers(v, l) ==
    SelectSeq(combinations_2(l), LAMBDA oxygen_pair : is_dimer(v, oxygen_pair))

\* Cathode.find_oxygen_dimers: what it raises and what it returns.
find_oxygen_dimers(s, v, site_index) ==
    IF ~in_range(site_index) THEN [raised |-> "IndexError", returned |-> Nothing]
    ELSE LET l == oxygen_neighbors_indices(s, v, site_index)
         IN  IF too_few_oxygen_neighbors(l)
             THEN [raised |-> "ValueError", returned |-> Nothing]
             ELSE [raised |-> "none", returned |-> Pairs(oxygen_dimers(v, l))]

\* get_dimer_environment without the dimer's own indices.
environment_of_neighbors_only(v, dimer_indices) ==
    Range(neighbors(v, dimer_indices[1])) \cup Range(neighbors(v, dimer_indices[2]))

\* get_dimer_environment without the second oxygen's neighbours.
environment_of_first_only(v, dimer_indices) ==
    {dimer_indices[1], dimer_indices[2]} \cup Range(neighbors(v, dimer_indices[1]))

\* Cathode.get_dimer_environment
get_dimer_environment(v, dimer_indices) ==
    ({dimer_indices[1], dimer_indices[2]}
        \cup Range(neighbors(v, dimer_indices[1])))
        \cup Range(neighbors(v, dimer_indices[2]))

\* remove_sites passing over a site that is no cation instead of raising.
RECURSIVE remove_sites_skipping(_, _)
remove_sites_skipping(conf, request) ==
    IF request = <<>> THEN [conf |-> conf, raised |-> "none"]
    ELSE LET site == Head(request)
         IN  IF ~is_cation(site) THEN remove_sites_skipping(conf, Tail(request))
             ELSE IF conf.is_none THEN [conf |-> conf, raised |-> "AttributeError"]
             ELSE IF site \notin Range(conf.list)
                  THEN [conf |-> conf, raised |-> "Warning"]
             ELSE remove_sites_skipping(List(list_remove(conf.list, site)),
                                        Tail(request))

\* remove_sites going on with the sites after one that is not present,
\* before it raises.
RECURSIVE remove_sites_going_on(_, _)
remove_sites_going_on(conf, request) ==
    IF request = <<>> THEN [conf |-> conf, raised |-> "none"]
    ELSE LET site == Head(request)
         IN  IF ~is_cation(site) THEN [conf |-> conf, raised |-> "IOError"]
             ELSE IF conf.is_none THEN [conf |-> conf, raised |-> "AttributeError"]
             ELSE IF site \notin Range(conf.list)
                  THEN [conf |-> remove_sites_going_on(conf, Tail(request)).conf,
                        raised |-> "Warning"]
             ELSE remove_sites_going_on(List(list_remove(conf.list, site)),
                                        Tail(request))

\* The loop of Cathode.remove_cations over the requested sites: the cation
\* configuration it leaves and the exception that ended it.
RECURSIVE remove_sites(_, _)
remove_sites(conf, request) ==
    IF request = <<>> THEN [conf |-> conf, raised |-> "none"]
    ELSE LET site == Head(request)
         IN  IF ~is_cation(site) THEN [conf |-> conf, raised |-> "IOError"]
             ELSE IF conf.is_none THEN [conf |-> conf, raised |-> "AttributeError"]
             ELSE IF site \notin Range(conf.list)
                  THEN [conf |-> conf, raised |-> "Warning"]
             ELSE remove_sites(List(list_remove(conf.list, site)), Tail(request))

\* remove_indices of remove_dimer_cations: the indices of the cation sites
\* in the environment, in increasing order.
remove_indices(s, environment) ==
    SelectSeq([k \in 1..Len(s) |-> k],
              LAMBDA k : k \in environment /\ s[k].specie \in CATIONS)

\* self._cation_configuration.remove(remove_indices), the argument a list of
\* indices: what the call can leave and raise. None has no remove. A list
\* of sites holds nothing equal to a list of indices, so nothing is taken
\* out: the comparison of a site with a list is not equal (list.remove then
\* raises ValueError) or, where the site's __eq__ reads the attributes of
\* what it is compared with, raises AttributeError itself.
list_remove_indices(conf, indices) ==
    IF conf.is_none THEN {[conf |-> conf, raised |-> "AttributeError"]}
    ELSE IF conf.list = <<>> THEN {[conf |-> conf, raised |-> "ValueError"]}
    ELSE {[conf |-> conf, raised |-> exception] :
            exception \in {"ValueError", "AttributeError"}}

\* cation_configuration computing the configuration anew at every read.
cation_configuration_regenerated(conf, s) == List(cation_sites(s))

\* cation_configuration testing the configuration for emptiness, not for None.
cation_configuration_if_empty(conf, s) ==
    IF conf.is_none \/ conf.list = <<>> THEN List(cation_sites(s)) ELSE conf

\* The getter of Cathode.cation_configuration: the configuration it leaves.
cation_configuration(conf, s) ==
    IF conf.is_none THEN List(cation_sites(s)) ELSE conf

\* Cathode._voronoi before the first access.
NoVoronoi == [is_none |-> TRUE, neighbors |-> <<>>, construction |-> 0]

\* DetailedVoronoiContainer(self): a new container with the neighbour lists t,
\* one construction after the container the cache held.
DetailedVoronoiContainer(cache, t) ==
    [is_none |-> FALSE, neighbors |-> t, construction |-> cache.construction + 1]

\* voronoi constructing a container at every access.
voronoi_always_constructed(cache, t) == DetailedVoronoiContainer(cache, t)

\* The getter of Cathode.voronoi: the container it leaves in the cache.
voronoi(cache, t) ==
    IF cache.is_none THEN DetailedVoronoiContainer(cache, t) ELSE cache

----------------------------------------------------------------------------
(* The lattice and the move of two sites. There is one periodic direction;  *)
(* positions and distances are whole numbers of grid steps.                 *)

CellLength == 7

Abs(x) == IF x < 0 THEN -x ELSE x

\* site_A.distance_and_image(site_B) and the image's cartesian coordinates:
\* the vector from a to the image of b nearest to a. Of two images equally
\* near, the search keeps the one it meets first, the lower one.
connection_vector(a, b) ==
    ((b - a + CellLength \div 2) % CellLength) - CellLength \div 2

\* new_site_coords with the vector from site_A to site_B itself, not to its
\* nearest image.
new_site_coords_no_image(site_A, site_B, distance) ==
    IF site_A.coords.is_nan \/ site_B.coords.is_nan \/ distance.is_nan
    THEN <<NaN, NaN>>
    ELSE LET connection == site_B.coords.x - site_A.coords.x
             original_distance ==
                Abs(connection_vector(site_A.coords.x, site_B.coords.x))
         IN  IF connection = 0 THEN <<NaN, NaN>>
             ELSE LET unit == connection \div Abs(connection)
                      site_move_distance == (original_distance - distance.x) \div 2
                  IN  <<Float(site_A.coords.x + site_move_distance * unit),
                        Float(site_B.coords.x - site_move_distance * unit)>>

\* new_site_coords moving site_B the same way as site_A.
new_site_coords_same_way(site_A, site_B, distance) ==
    IF site_A.coords.is_nan \/ site_B.coords.is_nan \/ distance.is_nan
    THEN <<NaN, NaN>>
    ELSE LET connection == connection_vector(site_A.coords.x, site_B.coords.x)
             original_distance == Abs(connection)
         IN  IF original_distance = 0 THEN <<NaN, NaN>>
             ELSE LET unit == connection \div original_distance
                      site_move_distance == (original_distance - distance.x) \div 2
                  IN  <<Float(site_A.coords.x + site_move_distance * unit),
                        Float(site_B.coords.x + site_move_distance * unit)>>

\* The new coordinates of site_A and of site_B. The norm of a zero vector is
\* 0.0, and numpy's division of 0.0 by 0.0 is nan, which every sum and
\* product with it is too.
new_site_coords(site_A, site_B, distance) ==
    IF site_A.coords.is_nan \/ site_B.coords.is_nan \/ distance.is_nan
    THEN <<NaN, NaN>>
    ELSE LET connection == connection_vector(site_A.coords.x, site_B.coords.x)
             original_distance == Abs(connection)
         IN  IF original_distance = 0 THEN <<NaN, NaN>>
             ELSE LET unit == connection \div original_distance
                      site_move_distance == (original_distance - distance.x) \div 2
                  IN  <<Float(site_A.coords.x + site_move_distance * unit),
                        Float(site_B.coords.x - site_move_distance * unit)>>

\* replace deleting the site and appending the new one at the end.
replace_at_end(s, i, coords) ==
    LET site == [s[index(i)] EXCEPT !.coords = coords]
    IN  [k \in 1..Len(s) |->
            IF k < index(i) THEN s[k] ELSE IF k < Len(s) THEN s[k + 1] ELSE site]

\* replace without the properties argument: the new site has none.
replace_without_properties(s, i, coords) ==
    [s EXCEPT ![index(i)] = [@ EXCEPT !.coords = coords, !.properties = 0]]

\* Structure.replace(i, species, coords, properties) with the species and the
\* properties of the site it replaces.
replace(s, i, coords) == [s EXCEPT ![index(i)] = [@ EXCEPT !.coords = coords]]

\* Cathode.change_site_distance: the sites it leaves.
change_site_distance(s, site_indices, distance) ==
    LET new == new_site_coords(s[index(site_indices[1])],
                               s[index(site_indices[2])], distance)
    IN  replace(replace(s, site_indices[1], new[1]), site_indices[2], new[2])

----------------------------------------------------------------------------
(* The structures the Cathode is constructed from. *)

\* The structures are numbered by species, the oxygens first: a structure's
\* sites can always be renumbered so. A site's properties are one number,
\* 0 for a site without properties (site_properties=None).
Rank(specie) == CASE specie = "O" -> 1 [] specie = "Li" -> 2 [] OTHER -> 3

Structures ==
    {[k \in SiteIndices |->
        [specie |-> sp[k], coords |-> Float(k - 1), properties |-> 0]] :
        sp \in {f \in [SiteIndices -> Species] :
                    \A k \in 1..(NumSites - 1) : Rank(f[k]) <= Rank(f[k + 1])}}

\* The facets two sites can share: an unordered pair of sites, or one site
\* with its own periodic images.
Facets == {{i, j} : i \in SiteIndices, j \in SiteIndices}

Reverse(s) == [k \in 1..Len(s) |-> s[Len(s) + 1 - k]]

\* The neighbours of site i from site j on, in index order. A site that shares
\* a facet with its own image shares one with the opposite image too.
RECURSIVE listed(_, _, _)
listed(facets, i, j) ==
    IF j > NumSites THEN <<>>
    ELSE (IF {i, j} \notin facets THEN <<>>
          ELSE IF i = j THEN <<j, j>> ELSE <<j>>) \o listed(facets, i, j + 1)

\* What a DetailedVoronoiContainer can answer: the sites that share a facet
\* with each site, listed in increasing or in decreasing index order.
Tessellations ==
    {[i \in SiteIndices |->
        IF descending THEN Reverse(listed(facets, i, 1)) ELSE listed(facets, i, 1)] :
            facets \in SUBSET Facets, descending \in BOOLEAN}

\* What self.voronoi can hold after this access.
Decompositions ==
    IF voronoi_cache.is_none THEN Tessellations ELSE {voronoi_cache.neighbors}

Requests == SeqsUpTo(Range(sites), MaxRequest)

\* Cathode.__init__
Init ==
    /\ sites \in Structures
    /\ voronoi_cache = NoVoronoi
    /\ cation_configuration_ = None
    /\ call = [op |-> "__init__", args |-> <<>>]
    /\ raised = "none"
    /\ returned = Nothing
    /\ launchpad = <<>>

\* The structures with site_properties given: a value for every site.
StructuresWithProperties ==
    {[k \in SiteIndices |-> [s[k] EXCEPT !.properties = k]] : s \in Structures}

\* A new Cathode constructed with or without site_properties.
InitProperties ==
    /\ sites \in Structures \cup StructuresWithProperties
    /\ voronoi_cache = NoVoronoi
    /\ cation_configuration_ = None
    /\ call = [op |-> "__init__", args |-> <<>>]
    /\ raised = "none"
    /\ returned = Nothing
    /\ launchpad = <<>>

\* A new Cathode that has a site of every species of the vocabulary.
InitMixed == Init /\ \A specie \in Species : \E k \in SiteIndices : sites[k].specie = specie

----------------------------------------------------------------------------
(* The calls on a Cathode. *)

\* A read of the cation_configuration property.
CationConfiguration ==
    /\ cation_configuration_' = cation_configuration(cation_configuration_, sites)
    /\ call' = [op |-> "cation_configuration", args |-> <<>>]
    /\ raised' = "none"
    /\ returned' = Sites(cation_configuration_'.list)
    /\ UNCHANGED <<sites, voronoi_cache, launchpad>>

\* remove_cations(): no sites given.
RemoveAllCations ==
    /\ cation_configuration_' = List(<<>>)
    /\ call' = [op |-> "remove_cations", args |-> None]
    /\ raised' = "none"
    /\ returned' = Nothing
    /\ UNCHANGED <<sites, voronoi_cache, launchpad>>

\* remove_cations(sites)
RemoveCations ==
    \E request \in Requests :
        LET r == remove_sites(cation_configuration_, request)
        IN  /\ cation_configuration_' = r.conf
            /\ call' = [op |-> "remove_cations", args |-> List(request)]
            /\ raised' = r.raised
            /\ returned' = Nothing
            /\ UNCHANGED <<sites, voronoi_cache, launchpad>>

\* find_oxygen_dimers(site_index), the index one of those given.
FindOxygenDimers(given) ==
    \E site_index \in given, t \in Decompositions :
        LET v == voronoi(voronoi_cache, t)
            r == find_oxygen_dimers(sites, v.neighbors, site_index)
        IN  /\ voronoi_cache' = v
            /\ call' = [op |-> "find_oxygen_dimers", args |-> site_index]
            /\ raised' = r.raised
            /\ returned' = r.returned
            /\ UNCHANGED <<sites, cation_configuration_, launchpad>>

\* get_dimer_environment(dimer_indices), the indices two of those given.
GetDimerEnvironment(given) ==
    \E a \in given, b \in given, t \in Decompositions :
        LET v == voronoi(voronoi_cache, t)
        IN  /\ voronoi_cache' = v
            /\ call' = [op |-> "get_dimer_environment", args |-> <<a, b>>]
            /\ IF in_range(a) /\ in_range(b)
               THEN /\ raised' = "none"
                    /\ returned' = Indices(get_dimer_environment(v.neighbors, <<a, b>>))
               ELSE /\ raised' = "IndexError"
                    /\ returned' = Nothing
            /\ UNCHANGED <<sites, cation_configuration_, launchpad>>

\* remove_dimer_cations(dimer_indices), the indices two of those given.
RemoveDimerCations(given) ==
    \E a \in given, b \in given, t \in Decompositions :
        LET v == voronoi(voronoi_cache, t)
        IN  /\ voronoi_cache' = v
            /\ call' = [op |-> "remove_dimer_cations", args |-> <<a, b>>]
            /\ returned' = Nothing
            /\ IF in_range(a) /\ in_range(b)
               THEN \E r \in list_remove_indices(
                            cation_configuration_,
                            remove_indices(sites,
                                get_dimer_environment(v.neighbors, <<a, b>>))) :
                        /\ cation_configuration_' = r.conf
                        /\ raised' = r.raised
               ELSE /\ raised' = "IndexError"
                    /\ UNCHANGED cation_configuration_
            /\ UNCHANGED <<sites, launchpad>>

\* The coordinates change_site_distance would write are on the grid and
\* within MaxCoord of the origin.
OnGrid(site_A, site_B, distance) ==
    LET new == new_site_coords(site_A, site_B, distance)
    IN  IF new[1].is_nan THEN TRUE
        ELSE /\ new[1].x \in (-MaxCoord)..MaxCoord
             /\ new[2].x \in (-MaxCoord)..MaxCoord
             /\ (Abs(connection_vector(site_A.coords.x, site_B.coords.x))
                    - distance.x) % 2 = 0

\* change_site_distance(site_indices, distance), the indices two of those
\* given and the distance one of distances.
ChangeSiteDistance(given, distances) ==
    \E a \in given, b \in given, distance \in distances :
        /\ call' = [op |-> "change_site_distance", args |-> <<a, b, distance>>]
        /\ returned' = Nothing
        /\ IF in_range(a) /\ in_range(b)
           THEN /\ OnGrid(sites[index(a)], sites[index(b)], distance)
                /\ sites' = change_site_distance(sites, <<a, b>>, distance)
                /\ raised' = "none"
           ELSE /\ raised' = "IndexError"
                /\ UNCHANGED sites
        /\ UNCHANGED <<voronoi_cache, cation_configuration_, launchpad>>

\* dimer_workflow(structure_file, dimer_indices, distance): the dimer is
\* defined, the transition is set up and one workflow of one Firework is
\* added to the LaunchPad.
dimer_workflow(l, dimer_indices, distance) ==
    Append(l, [dimer_indices |-> dimer_indices, distance |-> distance])

\* The loop of site_dimers_workflow over dimer_list: each iteration calls
\* dimer, the pair of indices of the iteration itself, which is a tuple and
\* cannot be called.
for_dimer_in(l, dimer_list, distance) ==
    IF dimer_list = <<>> THEN [launchpad |-> l, raised |-> "none"]
    ELSE [launchpad |-> l, raised |-> "TypeError"]

\* dimer_workflow(structure_file, dimer_indices, distance) on the file the
\* structure was read from.
DimerWorkflow(given, distances) ==
    \E a \in given, b \in given, distance \in distances :
        /\ Len(launchpad) < MaxWorkflows
        /\ launchpad' = dimer_workflow(launchpad, <<a, b>>, distance)
        /\ call' = [op |-> "dimer_workflow", args |-> <<a, b, distance>>]
        /\ raised' = "none"
        /\ returned' = Nothing
        /\ UNCHANGED <<sites, voronoi_cache, cation_configuration_>>

\* site_dimers_workflow(structure_file, site_index, distance): the Cathode
\* is read from the file anew, with the sites of the file, no cation
\* configuration and the Voronoi container that find_oxygen_dimers has
\* constructed, which answers as one constructed from the file before.
SiteDimersWorkflow(given, distances) ==
    \E site_index \in given, distance \in distances, t \in Decompositions :
        LET lirich == DetailedVoronoiContainer(NoVoronoi, t)
            dimer_list == find_oxygen_dimers(sites, lirich.neighbors, site_index)
            r == for_dimer_in(launchpad, dimer_list.returned.pairs, distance)
        IN  /\ voronoi_cache' = lirich
            /\ cation_configuration_' = None
            /\ call' = [op |-> "site_dimers_workflow",
                        args |-> <<site_index, distance>>]
            /\ returned' = Nothing
            /\ IF dimer_list.raised # "none"
               THEN /\ raised' = dimer_list.raised
                    /\ UNCHANGED launchpad
               ELSE /\ raised' = r.raised
                    /\ launchpad' = r.launchpad
            /\ UNCHANGED sites

\* The distances asked for: none negative.
Distances == {Float(d) : d \in 0..MaxDistance}

\* The sites moved where the moves are not of every site: the first two.
MovedIndices == 1..2

\* The distances the workflows are asked for.
WorkflowDistances == {Float(1), Float(2)}

\* Indices a caller can give: Python's -NumSites - 1, below the sites; -1,
\* the last site counted from the end; 0, the first site; NumSites, above
\* the sites.
GivenIndices == {-NumSites, 0, 1, NumSites + 1}

\* Distances a caller can give: a negative one, a positive one and nan.
GivenDistances == {Float(-1), Float(1), NaN}

Next ==
    \/ CationConfiguration
    \/ RemoveAllCations
    \/ RemoveCations
    \/ FindOxygenDimers(SiteIndices)
    \/ GetDimerEnvironment(SiteIndices)
    \/ RemoveDimerCations(SiteIndices)
    \/ ChangeSiteDistance(SiteIndices, Distances)
    \/ DimerWorkflow(SiteIndices, Distances)
    \/ SiteDimersWorkflow(SiteIndices, Distances)

Spec == Init /\ [][Next]_vars

\* The cation configuration alone: the calls that read or change it.
NextCations ==
    \/ CationConfiguration
    \/ RemoveAllCations
    \/ RemoveCations

SpecCations == Init /\ [][NextCations]_vars

\* The dimer search alone: the calls that read the Voronoi decomposition.
NextDimers ==
    \/ FindOxygenDimers(SiteIndices)
    \/ GetDimerEnvironment(SiteIndices)

SpecDimers == Init /\ [][NextDimers]_vars

\* The cations of a dimer's environment: the reads of the configuration, the
\* removal of all cations and the removal of those around a dimer.
NextDimerCations ==
    \/ CationConfiguration
    \/ RemoveAllCations
    \/ RemoveDimerCations(SiteIndices)

SpecDimerCations == Init /\ [][NextDimerCations]_vars

\* The workflows: those of one dimer and those of the dimers around a site.
NextWorkflow ==
    \/ DimerWorkflow(MovedIndices, WorkflowDistances)
    \/ SiteDimersWorkflow(SiteIndices, WorkflowDistances)

SpecWorkflow == Init /\ [][NextWorkflow]_vars

\* The geometry alone: the moves of two sites.
NextGeometry == ChangeSiteDistance(SiteIndices, Distances)

SpecGeometry == InitMixed /\ [][NextGeometry]_vars

\* The cation configuration of a structure whose first two sites are moved.
NextOccupancy ==
    \/ CationConfiguration
    \/ RemoveAllCations
    \/ RemoveCations
    \/ ChangeSiteDistance(MovedIndices, Distances)

SpecOccupancy == Init /\ [][NextOccupancy]_vars

\* The same calls on a Cathode whose sites can have properties.
SpecProperties == InitProperties /\ [][NextOccupancy]_vars

\* The calls that take indices and distances, with whatever a caller gives.
NextGiven ==
    \/ FindOxygenDimers(GivenIndices)
    \/ GetDimerEnvironment(GivenIndices)
    \/ ChangeSiteDistance(GivenIndices, GivenDistances)

SpecGiven == InitMixed /\ [][NextGiven]_vars

\* The dimer search in a structure whose first two sites are moved.
NextMoved ==
    \/ FindOxygenDimers(SiteIndices)
    \/ GetDimerEnvironment(SiteIndices)
    \/ ChangeSiteDistance(MovedIndices, Distances)

SpecMoved == InitMixed /\ [][NextMoved]_vars

\* All the calls on a Cathode that has a site of every species and whose
\* first two sites are moved.
NextMixed ==
    \/ CationConfiguration
    \/ RemoveAllCations
    \/ RemoveCations
    \/ FindOxygenDimers(SiteIndices)
    \/ GetDimerEnvironment(SiteIndices)
    \/ ChangeSiteDistance(MovedIndices, Distances)

SpecMixed == InitMixed /\ [][NextMixed]_vars

----------------------------------------------------------------------------
(* What the claims read from the state after a call. *)

\* The neighbour lists the Cathode's Voronoi container answers with.
Nbr == voronoi_cache.neighbors

Found == call.op = "find_oxygen_dimers" /\ raised = "none"

Pivot == call.args

\* The positions of the pivot's neighbour list that hold an oxygen.
OxygenPositions == {p \in DOMAIN Nbr[Pivot] : sites[Nbr[Pivot][p]].specie = "O"}

\* The pairs of oxygen neighbours of the pivot, by position.
EnumeratedPairs == {e \in OxygenPositions \X OxygenPositions : e[1] < e[2]}

PairAt(e) == <<Nbr[Pivot][e[1]], Nbr[Pivot][e[2]]>>

NeighborSet(a) == {k \in SiteIndices : \E p \in DOMAIN Nbr[a] : Nbr[a][p] = k}

SharedCount(a, b) == Cardinality(NeighborSet(a) \cap NeighborSet(b))

AcceptedPairs == {e \in EnumeratedPairs : SharedCount(PairAt(e)[1], PairAt(e)[2]) = 2}

LexBefore(f, e) == f[1] < e[1] \/ (f[1] = e[1] /\ f[2] < e[2])

----------------------------------------------------------------------------
(* C1: find_oxygen_dimers accepts a pair of the pivot's oxygen neighbours   *)
(* if and only if the two oxygens' neighbour index sets have exactly two    *)
(* members in common.                                                       *)
C1_DimerIffTwoShared ==
    Found =>
        \A e \in EnumeratedPairs :
            (\E k \in DOMAIN returned.pairs : returned.pairs[k] = PairAt(e))
                <=> SharedCount(PairAt(e)[1], PairAt(e)[2]) = 2

\* A search that accepted a pair and rejected one pair with more than two
\* shared neighbours and one with fewer than two.
C1_Witness ==
    /\ Found
    /\ returned.pairs # <<>>
    /\ \E e \in EnumeratedPairs : SharedCount(PairAt(e)[1], PairAt(e)[2]) > 2
    /\ \E e \in EnumeratedPairs : SharedCount(PairAt(e)[1], PairAt(e)[2]) < 2

(* C2: find_oxygen_dimers never returns a pair (a, b) with a = b, also when *)
(* the pivot's neighbour list holds one site index more than once.          *)
C2_NoSelfPair ==
    Found => \A k \in DOMAIN returned.pairs : returned.pairs[k][1] # returned.pairs[k][2]

(* C3: find_oxygen_dimers raises ValueError, and returns no pairs, exactly  *)
(* when the pivot's neighbour list holds fewer than two oxygens.            *)
C3_FailsIffFewerThanTwo ==
    call.op = "find_oxygen_dimers" =>
        /\ raised = "ValueError" <=> Cardinality(OxygenPositions) < 2
        /\ raised = "ValueError" => returned = Nothing
        /\ raised \in {"ValueError", "none"}

\* A search that failed on a pivot with exactly one oxygen among several
\* neighbours.
C3_Witness ==
    /\ call.op = "find_oxygen_dimers"
    /\ raised = "ValueError"
    /\ Cardinality(OxygenPositions) = 1
    /\ Len(Nbr[Pivot]) > 1

(* C4: both members of every pair find_oxygen_dimers returns are in the     *)
(* pivot's neighbour list and are oxygens.                                  *)
C4_PairsAreOxygenNeighbors ==
    Found =>
        \A k \in DOMAIN returned.pairs : \A c \in 1..2 :
            /\ returned.pairs[k][c] \in NeighborSet(Pivot)
            /\ sites[returned.pairs[k][c]].specie = "O"

\* A search that returned a pair for a pivot that also has a neighbour of
\* another species, one that shares two neighbours with an oxygen neighbour.
C4_Witness ==
    /\ Found
    /\ returned.pairs # <<>>
    /\ \E x \in NeighborSet(Pivot), p \in OxygenPositions :
        /\ sites[x].specie # "O"
        /\ SharedCount(x, Nbr[Pivot][p]) = 2

(* C5: the pairs find_oxygen_dimers returns are the accepted pairs in the   *)
(* lexicographic order of their positions in the pivot's neighbour list,    *)
(* and a second call with the same pivot returns the same sequence.         *)
C5_InEnumerationOrder ==
    Found =>
        /\ Len(returned.pairs) = Cardinality(AcceptedPairs)
        /\ \A e \in AcceptedPairs :
            returned.pairs[1 + Cardinality({f \in AcceptedPairs : LexBefore(f, e)})]
                = PairAt(e)

C5_SameCallSameResult ==
    (/\ call.op = "find_oxygen_dimers"
     /\ call'.op = "find_oxygen_dimers"
     /\ call'.args = call.args)
        => (raised' = raised /\ returned' = returned)

C5_Ordered == [][C5_InEnumerationOrder' /\ C5_SameCallSameResult]_vars

\* A search that returned two different pairs, the first from later sites
\* than the second.
C5_Witness ==
    /\ Found
    /\ Len(returned.pairs) >= 2
    /\ \E k \in 1..(Len(returned.pairs) - 1) :
        /\ returned.pairs[k] # returned.pairs[k + 1]
        /\ returned.pairs[k][1] > returned.pairs[k + 1][1]

(* C6: get_dimer_environment((a, b)) returns exactly {a, b} with all the    *)
(* neighbours of a and of b, of any species; a and b are members.           *)
C6_EnvironmentIsUnion ==
    call.op = "get_dimer_environment" =>
        /\ raised = "none"
        /\ returned.indices = {k \in SiteIndices :
                        \/ k = call.args[1]
                        \/ k = call.args[2]
                        \/ k \in NeighborSet(call.args[1])
                        \/ k \in NeighborSet(call.args[2])}
        /\ call.args[1] \in returned.indices
        /\ call.args[2] \in returned.indices

\* An environment of two sites that neither lists, holding a neighbour that
\* is no oxygen.
C6_Witness ==
    /\ call.op = "get_dimer_environment"
    /\ call.args[1] # call.args[2]
    /\ {call.args[1], call.args[2]}
            \cap (NeighborSet(call.args[1]) \cup NeighborSet(call.args[2])) = {}
    /\ \E k \in returned.indices : sites[k].specie # "O"

\* The call is get_dimer_environment of a pair that find_oxygen_dimers
\* returns for some pivot.
EnvironmentOfDimer ==
    /\ call.op = "get_dimer_environment"
    /\ \E site_index \in SiteIndices :
        LET r == find_oxygen_dimers(sites, Nbr, site_index)
        IN  r.raised = "none" /\ call.args \in Range(r.returned.pairs)

(* C7, as claimed: the environment of a dimer has |{a,b}| plus              *)
(* |neighbors(a) \cup neighbors(b)| members. Read here for the dimers of    *)
(* two different sites only.                                                *)
C7_SizeIsSum ==
    (EnvironmentOfDimer /\ call.args[1] # call.args[2]) =>
        Cardinality(returned.indices) =
            Cardinality({call.args[1], call.args[2]})
            + Cardinality(NeighborSet(call.args[1]) \cup NeighborSet(call.args[2]))

(* C7, amended: the environment of a dimer has |{a,b}| plus                 *)
(* |neighbors(a) \cup neighbors(b)| members, less the members of {a, b}     *)
(* that are neighbours of a or of b.                                        *)
C7_SizeIsSumLessOverlap ==
    EnvironmentOfDimer =>
        Cardinality(returned.indices) =
            Cardinality({call.args[1], call.args[2]})
            + Cardinality(NeighborSet(call.args[1]) \cup NeighborSet(call.args[2]))
            - Cardinality({call.args[1], call.args[2]}
                \cap (NeighborSet(call.args[1]) \cup NeighborSet(call.args[2])))

\* The environment of a dimer of two sites, one a neighbour of the other.
C7_Witness ==
    /\ EnvironmentOfDimer
    /\ call.args[1] # call.args[2]
    /\ call.args[1] \in NeighborSet(call.args[2])

----------------------------------------------------------------------------
\* The call is remove_cations with sites given.
RemoveRequested == call.op = "remove_cations" /\ ~call.args.is_none

Request == call.args.list

NonCationPositions ==
    {k \in DOMAIN Request : Request[k].specie \notin {"Li", "Na", "Mg"}}

\* The sites of request before position k are different sites, all present
\* in the configuration conf.
RemovableBefore(conf, request, k) ==
    /\ ~conf.is_none
    /\ \A j \in 1..(k - 1) :
        /\ \E p \in DOMAIN conf.list : conf.list[p] = request[j]
        /\ \A i \in 1..(j - 1) : request[i] # request[j]

(* C8: remove_cations(sites) with a site that is no cation never returns:   *)
(* it raises, and it raises IOError when the site is the first requested or *)
(* every site requested before it was removed, whatever the cation          *)
(* configuration is, None included.                                         *)
C8_NonCationRefused ==
    [][RemoveRequested' =>
        \A k \in NonCationPositions' :
            /\ raised' # "none"
            /\ (k = 1 \/ RemovableBefore(cation_configuration_, Request', k))
                => raised' = "IOError"]_vars

\* A call that removed a cation and then raised IOError at a site that is
\* no cation.
C8_Witness ==
    /\ RemoveRequested
    /\ Len(Request) = 2
    /\ NonCationPositions = {2}
    /\ raised = "IOError"
    /\ ~cation_configuration_.is_none
    /\ \A p \in DOMAIN cation_configuration_.list :
        cation_configuration_.list[p] # Request[1]

(* C9: a requested cation site that is absent from the cation configuration *)
(* is not fatal to remove_cations: the call does not end with the Warning   *)
(* raised.                                                                  *)
C9_NotPresentNotFatal == RemoveRequested => raised # "Warning"

(* C10: remove_cations() leaves the cation configuration empty from any     *)
(* state, None included, and a read of an empty configuration returns the   *)
(* empty list and leaves it empty.                                          *)
C10_RemoveAllStaysEmpty ==
    [][/\ (call'.op = "remove_cations" /\ call'.args.is_none)
            => (raised' = "none" /\ cation_configuration_' = List(<<>>))
       /\ (cation_configuration_ = List(<<>>) /\ call'.op = "cation_configuration")
            => (/\ raised' = "none"
                /\ returned'.site_list = <<>>
                /\ cation_configuration_' = List(<<>>))]_vars

\* A read that returned no site from a structure that has cation sites.
C10_Witness ==
    /\ call.op = "cation_configuration"
    /\ returned.site_list = <<>>
    /\ cation_configuration_ = List(<<>>)
    /\ \E k \in DOMAIN sites : sites[k].specie \in {"Li", "Na", "Mg"}

----------------------------------------------------------------------------
\* The cation sites of the structure, in site order.
AllCationSites == SelectSeq(sites, LAMBDA x : x.specie \in {"Li", "Na", "Mg"})

\* The sites of l that are not requested, in the order of l.
Without(l, request) ==
    SelectSeq(l, LAMBDA x : \A j \in DOMAIN request : request[j] # x)

\* The cations present under the configuration conf: what a read of the
\* cation configuration would return.
Present(conf) == IF conf.is_none THEN AllCationSites ELSE conf.list

\* The request names cation sites only, each once.
ValidRequest(request) ==
    /\ \A j \in DOMAIN request : request[j].specie \in {"Li", "Na", "Mg"}
    /\ \A i \in DOMAIN request, j \in DOMAIN request : i # j => request[i] # request[j]

(* C11: a new Cathode has all its cations present: the first read of the    *)
(* cation configuration returns all the cation sites, and remove_cations of *)
(* cation sites, each requested once, returns and leaves all the cation     *)
(* sites but the requested ones, whether the configuration was read before  *)
(* the call (it holds all the cation sites) or not (it is None).            *)
C11_StartsWithAllCations ==
    [][/\ (cation_configuration_.is_none /\ call'.op = "cation_configuration")
            => returned'.site_list = AllCationSites
       /\ (/\ cation_configuration_.is_none
              \/ cation_configuration_ = [is_none |-> FALSE, list |-> AllCationSites]
           /\ RemoveRequested'
           /\ ValidRequest(call'.args.list))
            => (/\ raised' = "none"
                /\ Present(cation_configuration_')
                        = Without(AllCationSites, call'.args.list))]_vars

----------------------------------------------------------------------------
\* The number of times x occurs in l.
Count(l, x) == Cardinality({k \in DOMAIN l : l[k] = x})

(* C12: once the cation configuration is initialised it is never None again *)
(* and no call adds to it: after every call (a read, remove_cations with or *)
(* without sites, find_oxygen_dimers, get_dimer_environment,                *)
(* change_site_distance) it holds each site at most as often as before.     *)
C12_PresentOnlyShrinks ==
    [][~cation_configuration_.is_none =>
        /\ ~cation_configuration_'.is_none
        /\ \A k \in DOMAIN cation_configuration_'.list :
            Count(cation_configuration_'.list, cation_configuration_'.list[k])
                <= Count(cation_configuration_.list, cation_configuration_'.list[k])]_vars

\* A read that returned the cation site as it was before a move of it, in a
\* Cathode whose Voronoi decomposition was asked for too.
C12_Witness ==
    /\ call.op = "cation_configuration"
    /\ returned.site_list # <<>>
    /\ returned.site_list # AllCationSites
    /\ \A k \in DOMAIN sites : ~sites[k].coords.is_nan
    /\ ~voronoi_cache.is_none

(* C13: the structure has the same number of sites, and the same species at *)
(* every index, before and after every call of remove_cations (with or      *)
(* without sites) and of change_site_distance.                              *)
C13_SitesKeepIndex ==
    [][/\ Len(sites') = Len(sites)
       /\ DOMAIN sites' = DOMAIN sites
       /\ \A k \in DOMAIN sites : sites'[k].specie = sites[k].specie]_vars

\* A move of the first site, a cation, to other coordinates, in a Cathode all
\* of whose cations were removed.
C13_Witness ==
    /\ call.op = "change_site_distance"
    /\ raised = "none"
    /\ sites[1].specie = "Li"
    /\ ~sites[1].coords.is_nan
    /\ sites[1].coords.x # 0
    /\ cation_configuration_ = [is_none |-> FALSE, list |-> <<>>]

(* C14: the Voronoi container is constructed at most once: the first        *)
(* find_oxygen_dimers or get_dimer_environment call constructs it, and      *)
(* every later one leaves the cache holding that same container.            *)
C14_BuiltOnce ==
    [][/\ voronoi_cache.is_none
            => (~voronoi_cache'.is_none /\ voronoi_cache'.construction = 1)
       /\ ~voronoi_cache.is_none => voronoi_cache' = voronoi_cache]_vars

\* A search that found a dimer with the first container constructed.
C14_Witness ==
    /\ Found
    /\ returned.pairs # <<>>
    /\ ~voronoi_cache.is_none
    /\ voronoi_cache.construction = 1

----------------------------------------------------------------------------
(* C15: the Voronoi container is invalidated when the geometry changes: a   *)
(* call that moves sites to other coordinates does not leave the cache      *)
(* holding the container constructed before the move, the one a later       *)
(* find_oxygen_dimers or get_dimer_environment call would answer from.      *)
C15_InvalidatedByMove ==
    [][(/\ ~voronoi_cache.is_none
        /\ sites' # sites
        /\ \A k \in DOMAIN sites' : ~sites'[k].coords.is_nan)
            => voronoi_cache' # voronoi_cache]_vars

----------------------------------------------------------------------------
\* The call is change_site_distance and it returned.
Moved == call.op = "change_site_distance" /\ raised = "none"

\* The vectors from x to the two images of y that x lies between (one
\* of them of length zero when x is at an image of y); every other image of
\* y is farther from x than one of these.
ImageVectors(x, y) ==
    {(y - x) % CellLength, ((y - x) % CellLength) - CellLength}

\* The distance from x to the nearest image of y.
MinimumImageDistance(x, y) ==
    CHOOSE d \in {Abs(v) : v \in ImageVectors(x, y)} :
        \A v \in ImageVectors(x, y) : d <= Abs(v)

\* The vectors from x to the nearest images of y.
NearestVectors(x, y) ==
    {v \in ImageVectors(x, y) : Abs(v) = MinimumImageDistance(x, y)}

\* Neither site of the pair has a coordinate that is not a number, and the
\* two are apart.
Apart(s, a, b) ==
    /\ ~s[a].coords.is_nan
    /\ ~s[b].coords.is_nan
    /\ MinimumImageDistance(s[a].coords.x, s[b].coords.x) # 0

(* C16, as claimed: after change_site_distance on two sites that are apart  *)
(* the minimum-image distance of the two sites is the distance asked for,   *)
(* for every distance that is not negative.                                 *)
C16_SeparationIsTarget ==
    [][(Moved' /\ Apart(sites, call'.args[1], call'.args[2])) =>
        /\ ~sites'[call'.args[1]].coords.is_nan
        /\ ~sites'[call'.args[2]].coords.is_nan
        /\ MinimumImageDistance(sites'[call'.args[1]].coords.x,
                                sites'[call'.args[2]].coords.x) = call'.args[3].x]_vars

(* C16, amended: after change_site_distance on two sites that are apart the *)
(* image of site B that was nearest to site A is at the distance asked for  *)
(* from site A, and the minimum-image distance of the two sites is the      *)
(* distance asked for when that is at most half the cell length.            *)
C16_SeparationIsTargetWithinHalfCell ==
    [][(Moved' /\ Apart(sites, call'.args[1], call'.args[2])) =>
        /\ ~sites'[call'.args[1]].coords.is_nan
        /\ ~sites'[call'.args[2]].coords.is_nan
        /\ \E v \in NearestVectors(sites[call'.args[1]].coords.x,
                                   sites[call'.args[2]].coords.x) :
            LET image == v - (sites[call'.args[2]].coords.x
                                - sites[call'.args[1]].coords.x)
            IN  Abs(sites'[call'.args[2]].coords.x + image
                        - sites'[call'.args[1]].coords.x) = call'.args[3].x
        /\ 2 * call'.args[3].x <= CellLength =>
            MinimumImageDistance(sites'[call'.args[1]].coords.x,
                                 sites'[call'.args[2]].coords.x) = call'.args[3].x]_vars

\* A move to a distance within half the cell that left site A and site B in
\* different cells: the two are at the distance asked for through the cell
\* boundary.
C16_Witness ==
    /\ Moved
    /\ Apart(sites, call.args[1], call.args[2])
    /\ 2 * call.args[3].x <= CellLength
    /\ Abs(sites[call.args[2]].coords.x - sites[call.args[1]].coords.x)
            # call.args[3].x

(* C17: change_site_distance on two sites that are apart moves site A by    *)
(* delta along the unit vector from A to the nearest image of B and site B  *)
(* by delta the other way, with delta half of the original distance less    *)
(* the distance asked for; the sum of the two coordinates, twice the        *)
(* midpoint, is the same before and after the call.                         *)
C17_SymmetricMove ==
    [][(Moved' /\ Apart(sites, call'.args[1], call'.args[2])) =>
        LET A == sites[call'.args[1]].coords.x
            B == sites[call'.args[2]].coords.x
            newA == sites'[call'.args[1]].coords
            newB == sites'[call'.args[2]].coords
        IN  /\ ~newA.is_nan
            /\ ~newB.is_nan
            /\ \E v \in NearestVectors(A, B) :
                LET twice_delta == Abs(v) - call'.args[3].x
                    unit == IF v > 0 THEN 1 ELSE -1
                IN  /\ 2 * (newA.x - A) = twice_delta * unit
                    /\ 2 * (newB.x - B) = -(twice_delta * unit)
            /\ newA.x + newB.x = A + B]_vars

\* A move to a distance of more than half the cell, larger than any distance
\* two sites can be at, of two sites whose nearest images were in different
\* cells: site A and site B themselves are not at the distance asked for.
C17_Witness ==
    /\ Moved
    /\ ~sites[call.args[1]].coords.is_nan
    /\ ~sites[call.args[2]].coords.is_nan
    /\ 2 * call.args[3].x > CellLength
    /\ Abs(sites[call.args[2]].coords.x - sites[call.args[1]].coords.x)
            # call.args[3].x

\* The sum of the coordinates of sites a and b of s, twice their midpoint;
\* not a number when a coordinate is not.
TwiceMidpoint(s, a, b) ==
    IF s[a].coords.is_nan \/ s[b].coords.is_nan
    THEN [is_nan |-> TRUE, x |-> 0]
    ELSE [is_nan |-> FALSE, x |-> s[a].coords.x + s[b].coords.x]

\* The sites as the Cathode was constructed with them.
ConstructedSites ==
    [k \in DOMAIN sites |-> [sites[k] EXCEPT !.coords = [is_nan |-> FALSE, x |-> k - 1]]]

\* The call was change_site_distance on two sites that were apart, and the
\* sites are as this call leaves them in a Cathode just constructed.
FirstMove ==
    /\ Moved
    /\ Apart(ConstructedSites, call.args[1], call.args[2])
    /\ sites = change_site_distance(ConstructedSites,
                                    <<call.args[1], call.args[2]>>, call.args[3])

(* C18: for two sites that are apart and any distance, a call of            *)
(* change_site_distance to that distance and a second call back to the      *)
(* original distance leave the midpoint of the pair as it was, the distance *)
(* 0 included. Read on the first two moves of a Cathode.                    *)
C18_RoundTripKeepsMidpoint ==
    [][(/\ FirstMove
        /\ call'.op = "change_site_distance"
        /\ call'.args[1] = call.args[1]
        /\ call'.args[2] = call.args[2]
        /\ call'.args[3] =
            [is_nan |-> FALSE,
             x |-> MinimumImageDistance(call.args[1] - 1, call.args[2] - 1)])
            => TwiceMidpoint(sites', call.args[1], call.args[2])
                = TwiceMidpoint(ConstructedSites, call.args[1], call.args[2])]_vars

(* C19: change_site_distance on two sites at distance zero (two sites at    *)
(* the same place, or one index given twice) raises a degenerate-geometry   *)
(* error and writes no coordinate that is not a number.                     *)
C19_DegenerateRefused ==
    [][(/\ call'.op = "change_site_distance"
        /\ ~sites[call'.args[1]].coords.is_nan
        /\ ~sites[call'.args[2]].coords.is_nan
        /\ MinimumImageDistance(sites[call'.args[1]].coords.x,
                                sites[call'.args[2]].coords.x) = 0)
            => (/\ raised' # "none"
                /\ \A k \in DOMAIN sites' : ~sites'[k].coords.is_nan)]_vars

(* C20: find_oxygen_dimers, get_dimer_environment and change_site_distance  *)
(* called with a site index that is not the index of a site, a negative     *)
(* index included, fail with an index error; change_site_distance called    *)
(* with a negative distance or one that is not a number is rejected; a call *)
(* that is rejected leaves the sites as they were.                          *)
C20_InputsValidated ==
    [][/\ (/\ call'.op = "find_oxygen_dimers"
           /\ call'.args \notin SiteIndices)
            => (raised' = "IndexError" /\ sites' = sites)
       /\ (/\ call'.op \in {"get_dimer_environment", "change_site_distance"}
           /\ ~(call'.args[1] \in SiteIndices /\ call'.args[2] \in SiteIndices))
            => (raised' = "IndexError" /\ sites' = sites)
       /\ (/\ call'.op = "change_site_distance"
           /\ (call'.args[3].is_nan \/ call'.args[3].x < 0))
            => (raised' # "none" /\ sites' = sites)]_vars

(* C21: change_site_distance changes nothing but the coordinates of the two *)
(* sites given: these keep their species and their properties, every other  *)
(* site is as it was, and the cation configuration is not touched.          *)
C21_OnlyCoordinatesOfThePair ==
    [][Moved' =>
        /\ DOMAIN sites' = DOMAIN sites
        /\ \A k \in DOMAIN sites :
            /\ sites'[k].specie = sites[k].specie
            /\ sites'[k].properties = sites[k].properties
            /\ k \notin {index(call'.args[1]), index(call'.args[2])}
                => sites'[k] = sites[k]
        /\ cation_configuration_' = cation_configuration_]_vars

\* A move of a cation site that has properties, to another place than it was
\* constructed at, with a cation configuration that holds cations.
C21_Witness ==
    /\ Moved
    /\ ~cation_configuration_.is_none
    /\ cation_configuration_.list # <<>>
    /\ \E k \in {call.args[1], call.args[2]} :
        /\ is_cation(sites[k])
        /\ sites[k].properties # 0
        /\ ~sites[k].coords.is_nan
        /\ sites[k].coords.x # k - 1

----------------------------------------------------------------------------
(* C22: after any calls of remove_cations (with or without sites) and of    *)
(* change_site_distance, every site the cation configuration holds is a     *)
(* site the structure holds now, of a cation species. Read on the states    *)
(* where every coordinate is a number.                                      *)
C22_PresentSitesAreCurrent ==
    (/\ ~cation_configuration_.is_none
     /\ \A k \in DOMAIN sites : ~sites[k].coords.is_nan)
        => \A j \in DOMAIN cation_configuration_.list :
            /\ cation_configuration_.list[j].specie \in {"Li", "Na", "Mg"}
            /\ \E k \in DOMAIN sites : sites[k] = cation_configuration_.list[j]

----------------------------------------------------------------------------
\* remove_cations(request) on the configuration conf failed at position k
\* with the exception exc and left the configuration after: the sites
\* before position k are cations, the site at k is no cation (IOError) or a
\* cation that conf does not hold once the sites before it are taken out
\* (Warning), and after holds every site as often as conf less the number
\* of times it is requested before k.
FailedAt(conf, after, request, k, exc) ==
    LET before == SubSeq(request, 1, k - 1)
    IN  /\ \A j \in 1..(k - 1) : request[j].specie \in {"Li", "Na", "Mg"}
        /\ IF request[k].specie \notin {"Li", "Na", "Mg"}
           THEN exc = "IOError"
           ELSE /\ exc = "Warning"
                /\ ~conf.is_none
                /\ Count(conf.list, request[k]) = Count(before, request[k])
        /\ IF conf.is_none
           THEN k = 1 /\ after = conf
           ELSE /\ ~after.is_none
                /\ \A x \in Range(conf.list) \cup Range(after.list) \cup Range(request) :
                    Count(after.list, x) = Count(conf.list, x) - Count(before, x)

(* C23: remove_cations(sites) takes the sites in the order requested and is *)
(* not atomic: when it fails at a site that is no cation or is not present, *)
(* the cation sites requested before it are out of the configuration and    *)
(* none of the sites requested after it has been taken out.                 *)
C23_FailsWhereItStands ==
    [][(RemoveRequested' /\ raised' \in {"IOError", "Warning"}) =>
        \E k \in DOMAIN Request' :
            FailedAt(cation_configuration_, cation_configuration_', Request', k,
                     raised')]_vars

\* A call for two different cation sites that raised Warning and left
\* neither of the two in the configuration, and another cation present: the
\* state after the first of the two was taken out and the second was not
\* found.
C23_Witness ==
    /\ RemoveRequested
    /\ raised = "Warning"
    /\ \A j \in DOMAIN Request : Request[j].specie \in {"Li", "Na", "Mg"}
    /\ Len(Request) = 2
    /\ Request[1] # Request[2]
    /\ ~cation_configuration_.is_none
    /\ cation_configuration_.list # <<>>
    /\ \A p \in DOMAIN cation_configuration_.list :
        /\ cation_configuration_.list[p] # Request[1]
        /\ cation_configuration_.list[p] # Request[2]

----------------------------------------------------------------------------
\* The cation sites at the indices of the environment.
CationSitesIn(environment) ==
    {sites[k] : k \in {i \in DOMAIN sites :
                        i \in environment /\ sites[i].specie \in {"Li", "Na", "Mg"}}}

(* C24: remove_dimer_cations(dimer_indices) takes out of the cation         *)
(* configuration the cation sites whose index is in the environment of the  *)
(* dimer (the two indices and the neighbours of either), and leaves every   *)
(* other cation that was present. Read on the calls made once the cation    *)
(* configuration has been read.                                             *)
C24_EnvironmentCationsRemoved ==
    [][(/\ call'.op = "remove_dimer_cations"
        /\ ~cation_configuration_.is_none
        /\ call'.args[1] \in SiteIndices
        /\ call'.args[2] \in SiteIndices) =>
        LET environment ==
                {call'.args[1], call'.args[2]}
                    \cup {k \in SiteIndices :
                            \E c \in {call'.args[1], call'.args[2]} :
                                \E p \in DOMAIN voronoi_cache'.neighbors[c] :
                                    voronoi_cache'.neighbors[c][p] = k}
        IN  Present(cation_configuration_')
                = SelectSeq(Present(cation_configuration_),
                            LAMBDA x : x \notin CationSitesIn(environment))]_vars

----------------------------------------------------------------------------
(* C25: site_dimers_workflow sets up one dimer workflow for each pair that  *)
(* find_oxygen_dimers returns for the site, in the order returned, with the *)
(* pair as dimer_indices and the distance given; when find_oxygen_dimers    *)
(* raises, no workflow is set up.                                           *)
C25_OneWorkflowPerDimer ==
    [][call'.op = "site_dimers_workflow" =>
        LET found == find_oxygen_dimers(sites', voronoi_cache'.neighbors,
                                        call'.args[1])
            dimers == found.returned.pairs
        IN  IF found.raised # "none" THEN launchpad' = launchpad
            ELSE launchpad' = launchpad \o
                    [k \in 1..Len(dimers) |->
                        [dimer_indices |-> dimers[k], distance |-> call'.args[2]]]]_vars

====
